---- MODULE Spec2Model ----
(***************************************************************************)
(* Model of serve.py: a static file server on a fixed port that adds one   *)
(* CORS header to every header block, announces itself, opens a browser    *)
(* and serves until KeyboardInterrupt.                                     *)
(*                                                                         *)
(* A process p is one invocation of `python3 serve.py`.  Processes share   *)
(* the host's TCP ports.  The request handler (class Handler) is modelled  *)
(* line by line; what it inherits from http.server / socketserver /        *)
(* webbrowser is modelled from CPython's standard library.                 *)
(***************************************************************************)
EXTENDS Integers, Sequences, FiniteSets, TLC

\* Number of invocations of serve.py on the same host.
NumProcs == 2

\* serve.py line 11
PORT == 8000

Procs == 1..NumProcs

\* The host's ports: the fixed port and one other port a fallback could use.
Ports == {PORT, PORT + 1}

\* f"http://localhost:{PORT}"
URL == "http://localhost:" \o ToString(PORT)

StartingLine == "Starting server at " \o URL
HintLine     == "Press Ctrl+C to stop the server"
StoppedLine  == "\nServer stopped"

VARIABLES
    pc,            \* pc[p]: the line of main() process p is at
    listening,     \* listening[port]: the process holding the listening socket, 0 if none
    bindAttempts,  \* bindAttempts[p]: the ports p tried to bind, in order
    stdout,        \* stdout[p]: the lines main() printed
    browserResult, \* browserResult[p]: outcome of webbrowser.open
    closed,        \* closed[p]: httpd.server_close() was called
    exitCode,      \* exitCode[p]: the process's exit status, -1 while it has none
    steps,         \* steps[p]: the steps of main() taken so far, in order
    rpc,           \* rpc[p]: where the handler of the request in progress is
    req,           \* req[p]: the request in progress
    hbuf,          \* hbuf[p]: the handler's _headers_buffer
    resp           \* resp[p]: what has been written to the connection

vars == <<pc, listening, bindAttempts, stdout, browserResult, closed, exitCode,
          steps, rpc, req, hbuf, resp>>

procVars == <<pc, listening, bindAttempts, stdout, browserResult, closed,
              exitCode, steps>>
reqVars  == <<rpc, req, hbuf, resp>>

----------------------------------------------------------------------------
(* The served directory and the requests clients send                      *)

Paths == {"/index.html", "/locked.json", "/missing.html", "/data"}

\* The working directory: a readable file, a file the process may not read,
\* a name that does not exist, and a directory.
FS ==
    [path \in Paths |->
        CASE path = "/index.html"   -> [kind |-> "file", readable |-> TRUE,  content |-> "<h1>hi</h1>"]
          [] path = "/locked.json"  -> [kind |-> "file", readable |-> FALSE, content |-> "{}"]
          [] path = "/missing.html" -> [kind |-> "absent", readable |-> FALSE, content |-> ""]
          [] path = "/data"         -> [kind |-> "dir", readable |-> TRUE, content |-> ""]]

Methods == {"GET", "HEAD", "POST"}

\* The last word of the request line: "" when the line has two words only.
Versions == {"HTTP/1.1", "", "HTTP/x", "HTTP/2.0"}

\* ims: the request carries an If-Modified-Since (and no If-None-Match) that is
\* not older than the file's modification time.
Requests == [method : Methods, version : Versions, path : Paths, ims : BOOLEAN]

NoReq  == [method |-> "", version |-> "", path |-> "", ims |-> FALSE]
NoResp == [status |-> 0, headers |-> <<>>, flushed |-> FALSE, body |-> "", complete |-> FALSE]

CorsHeader == "Access-Control-Allow-Origin: *"

----------------------------------------------------------------------------
(* http.server as Handler inherits it                                      *)

\* BaseHTTPRequestHandler.parse_request: request_version stays at the default
\* "HTTP/0.9" unless the request line's third word is a valid version below 2.0.
RequestVersion(r) ==
    IF r.version = "HTTP/1.1" THEN r.version ELSE "HTTP/0.9"

\* parse_request: the error it answers with, 0 when the request line parses.
ParseErrorCode(r) ==
    CASE r.version = "HTTP/x"                   -> 400
      [] r.version = "HTTP/2.0"                 -> 505
      [] r.version = "" /\ r.method # "GET"     -> 400
      [] OTHER                                  -> 0

\* self.command: None when the request line was rejected.
Command(r) ==
    IF ParseErrorCode(r) # 0 THEN "" ELSE r.method

\* send_response_only: the status line goes to the buffer, except for HTTP/0.9.
SendResponseOnly(buf, ver) ==
    IF ver # "HTTP/0.9" THEN Append(buf, "STATUS") ELSE buf

\* send_header: the header goes to the buffer, except for HTTP/0.9.
SendHeader(buf, ver, keyword) ==
    IF ver # "HTTP/0.9" THEN Append(buf, keyword) ELSE buf

RECURSIVE SendHeaders(_, _, _)
SendHeaders(buf, ver, keywords) ==
    IF keywords = <<>> THEN buf
    ELSE SendHeaders(SendHeader(buf, ver, Head(keywords)), ver, Tail(keywords))

\* send_response: status line, Server, Date.
SendResponse(ver) ==
    SendHeaders(SendResponseOnly(<<>>, ver), ver, <<"Server", "Date">>)

ErrorBody(code) == "error " \o ToString(code)

\* send_error: the headers it sends before end_headers, and the body it writes
\* after (none for HEAD).
SendError(r, code) ==
    [code    |-> code,
     headers |-> <<"Connection", "Content-Type", "Content-Length">>,
     body    |-> IF Command(r) # "HEAD" THEN ErrorBody(code) ELSE ""]

SendHead_MissingIs200(r) ==
    LET f == FS[r.path] IN
    CASE f.kind = "dir" ->
            [code |-> 301, headers |-> <<"Location", "Content-Length">>, body |-> ""]
      [] f.kind = "file" /\ ~f.readable ->
            SendError(r, 404)
      [] f.kind = "file" /\ f.readable /\ r.ims ->
            [code |-> 304, headers |-> <<>>, body |-> ""]
      [] OTHER ->
            [code    |-> 200,
             headers |-> <<"Content-type", "Content-Length", "Last-Modified">>,
             body    |-> IF r.method = "GET" THEN f.content ELSE ""]

\* SimpleHTTPRequestHandler.send_head followed by do_GET's copyfile or do_HEAD's
\* close: a directory named without its slash is redirected, a name that cannot
\* be opened is a 404, a satisfied If-Modified-Since is a 304, and otherwise the
\* file is sent (its bytes only for GET).
SendHead(r) ==
    LET f == FS[r.path] IN
    CASE f.kind = "dir" ->
            [code |-> 301, headers |-> <<"Location", "Content-Length">>, body |-> ""]
      [] f.kind = "absent" \/ ~f.readable ->
            SendError(r, 404)
      [] f.kind = "file" /\ f.readable /\ r.ims ->
            [code |-> 304, headers |-> <<>>, body |-> ""]
      [] OTHER ->
            [code    |-> 200,
             headers |-> <<"Content-type", "Content-Length", "Last-Modified">>,
             body    |-> IF r.method = "GET" THEN f.content ELSE ""]

\* handle_one_request: parse, dispatch to do_<command>, 501 for a command the
\* handler has no method for.
HandleOneRequest(r) ==
    IF ParseErrorCode(r) # 0 THEN SendError(r, ParseErrorCode(r))
    ELSE IF r.method \notin {"GET", "HEAD"} THEN SendError(r, 501)
    ELSE SendHead(r)

\* The connection is accepted and handled up to the call of self.end_headers().
Accept(p, r) ==
    /\ pc[p] = "Serving"
    /\ rpc[p] = "idle"
    /\ req' = [req EXCEPT ![p] = r]
    /\ hbuf' = [hbuf EXCEPT ![p] =
                   SendHeaders(SendResponse(RequestVersion(r)), RequestVersion(r),
                               HandleOneRequest(r).headers)]
    /\ resp' = [resp EXCEPT ![p] = NoResp]
    /\ rpc' = [rpc EXCEPT ![p] = "end_headers"]
    /\ UNCHANGED procVars

\* The inherited end_headers run before the header is added: the block is
\* flushed first and the header lands in the buffer afterwards.
EndHeaders_SendHeader_Late(p) ==
    /\ pc[p] = "Serving"
    /\ rpc[p] = "end_headers"
    /\ resp' = [resp EXCEPT ![p].headers = hbuf[p],
                            ![p].flushed = RequestVersion(req[p]) # "HTTP/0.9"]
    /\ hbuf' = [hbuf EXCEPT ![p] = SendHeader(<<>>, RequestVersion(req[p]), CorsHeader)]
    /\ rpc' = [rpc EXCEPT ![p] = "base_end_headers"]
    /\ UNCHANGED <<req, procVars>>

\* The header is not added.
EndHeaders_SendHeader_Skip(p) ==
    /\ pc[p] = "Serving"
    /\ rpc[p] = "end_headers"
    /\ rpc' = [rpc EXCEPT ![p] = "base_end_headers"]
    /\ UNCHANGED <<req, hbuf, resp, procVars>>

\* Handler.end_headers, line 16: self.send_header('Access-Control-Allow-Origin', '*')
EndHeaders_SendHeader(p) ==
    /\ pc[p] = "Serving"
    /\ rpc[p] = "end_headers"
    /\ hbuf' = [hbuf EXCEPT ![p] = SendHeader(@, RequestVersion(req[p]), CorsHeader)]
    /\ rpc' = [rpc EXCEPT ![p] = "base_end_headers"]
    /\ UNCHANGED <<req, resp, procVars>>

\* Handler.end_headers, line 17: SimpleHTTPRequestHandler.end_headers(self), which
\* ends the block and flushes the buffer to the connection, except for HTTP/0.9.
EndHeaders_Base(p) ==
    /\ pc[p] = "Serving"
    /\ rpc[p] = "base_end_headers"
    /\ IF RequestVersion(req[p]) # "HTTP/0.9"
       THEN /\ resp' = [resp EXCEPT ![p].status  = HandleOneRequest(req[p]).code,
                                    ![p].headers = @ \o hbuf[p],
                                    ![p].flushed = TRUE]
            /\ hbuf' = [hbuf EXCEPT ![p] = <<>>]
       ELSE UNCHANGED <<resp, hbuf>>
    /\ rpc' = [rpc EXCEPT ![p] = "body"]
    /\ UNCHANGED <<req, procVars>>

\* After end_headers: copyfile (do_GET) or the error page (send_error).
WriteBody(p) ==
    /\ pc[p] = "Serving"
    /\ rpc[p] = "body"
    /\ resp' = [resp EXCEPT ![p].body = HandleOneRequest(req[p]).body,
                            ![p].complete = TRUE]
    /\ rpc' = [rpc EXCEPT ![p] = "sent"]
    /\ UNCHANGED <<req, hbuf, procVars>>

\* shutdown_request: the connection is closed and the handler discarded.
ShutdownRequest(p) ==
    /\ pc[p] = "Serving"
    /\ rpc[p] = "sent"
    /\ rpc' = [rpc EXCEPT ![p] = "idle"]
    /\ req' = [req EXCEPT ![p] = NoReq]
    /\ hbuf' = [hbuf EXCEPT ![p] = <<>>]
    /\ resp' = [resp EXCEPT ![p] = NoResp]
    /\ UNCHANGED procVars

----------------------------------------------------------------------------
(* main()                                                                  *)

BrowserOutcomes == {"True", "False", "raised"}

\* The process ends: the operating system closes whatever sockets it still holds.
Terminate(p, code, owner) ==
    /\ pc' = [pc EXCEPT ![p] = "Stopped"]
    /\ exitCode' = [exitCode EXCEPT ![p] = code]
    /\ listening' = [port \in Ports |-> IF owner[port] = p THEN 0 ELSE owner[port]]

\* A bind failure is answered by trying the next port.
Bind_Fallback(p) ==
    /\ pc[p] = "NotStarted"
    /\ IF listening[PORT] = 0
       THEN /\ listening' = [listening EXCEPT ![PORT] = p]
            /\ bindAttempts' = [bindAttempts EXCEPT ![p] = Append(@, PORT)]
       ELSE /\ listening' = [listening EXCEPT ![PORT + 1] = p]
            /\ bindAttempts' = [bindAttempts EXCEPT ![p] = @ \o <<PORT, PORT + 1>>]
    /\ pc' = [pc EXCEPT ![p] = "PrintUrl"]
    /\ steps' = [steps EXCEPT ![p] = Append(@, "bind")]
    /\ UNCHANGED <<exitCode, stdout, browserResult, closed, reqVars>>

\* A bind failure is swallowed and main() carries on without a listener.
Bind_IgnoreFailure(p) ==
    /\ pc[p] = "NotStarted"
    /\ bindAttempts' = [bindAttempts EXCEPT ![p] = Append(@, PORT)]
    /\ IF listening[PORT] = 0
       THEN /\ listening' = [listening EXCEPT ![PORT] = p]
            /\ steps' = [steps EXCEPT ![p] = Append(@, "bind")]
       ELSE /\ listening' = listening
            /\ steps' = [steps EXCEPT ![p] = Append(@, "bind_failed")]
    /\ pc' = [pc EXCEPT ![p] = "PrintUrl"]
    /\ UNCHANGED <<exitCode, stdout, browserResult, closed, reqVars>>

\* Lines 20-21: httpd = HTTPServer(('', PORT), Handler) binds and listens; when the
\* port is held, the constructor raises OSError, which main() does not catch.
Bind(p) ==
    /\ pc[p] = "NotStarted"
    /\ bindAttempts' = [bindAttempts EXCEPT ![p] = Append(@, PORT)]
    /\ IF listening[PORT] = 0
       THEN /\ listening' = [listening EXCEPT ![PORT] = p]
            /\ pc' = [pc EXCEPT ![p] = "PrintUrl"]
            /\ steps' = [steps EXCEPT ![p] = Append(@, "bind")]
            /\ UNCHANGED exitCode
       ELSE /\ Terminate(p, 1, listening)
            /\ steps' = [steps EXCEPT ![p] = Append(@, "bind_failed")]
    /\ UNCHANGED <<stdout, browserResult, closed, reqVars>>

\* The hint line is skipped.
PrintUrl_SkipsHint(p) ==
    /\ pc[p] = "PrintUrl"
    /\ stdout' = [stdout EXCEPT ![p] = Append(@, StartingLine)]
    /\ pc' = [pc EXCEPT ![p] = "OpenBrowser"]
    /\ steps' = [steps EXCEPT ![p] = Append(@, "print_url")]
    /\ UNCHANGED <<listening, bindAttempts, browserResult, closed, exitCode, reqVars>>

\* Line 23: print(f"Starting server at http://localhost:{PORT}")
PrintUrl(p) ==
    /\ pc[p] = "PrintUrl"
    /\ stdout' = [stdout EXCEPT ![p] = Append(@, StartingLine)]
    /\ pc' = [pc EXCEPT ![p] = "PrintHint"]
    /\ steps' = [steps EXCEPT ![p] = Append(@, "print_url")]
    /\ UNCHANGED <<listening, bindAttempts, browserResult, closed, exitCode, reqVars>>

\* Line 24: print("Press Ctrl+C to stop the server")
PrintHint(p) ==
    /\ pc[p] = "PrintHint"
    /\ stdout' = [stdout EXCEPT ![p] = Append(@, HintLine)]
    /\ pc' = [pc EXCEPT ![p] = "OpenBrowser"]
    /\ steps' = [steps EXCEPT ![p] = Append(@, "print_hint")]
    /\ UNCHANGED <<listening, bindAttempts, browserResult, closed, exitCode, reqVars>>

\* Line 27: webbrowser.open(...) returns True or False, or raises; the call is
\* outside the try statement, so what it raises leaves main().
OpenBrowser(p, outcome) ==
    /\ pc[p] = "OpenBrowser"
    /\ browserResult' = [browserResult EXCEPT ![p] = outcome]
    /\ steps' = [steps EXCEPT ![p] = Append(@, "open_browser")]
    /\ IF outcome = "raised"
       THEN Terminate(p, 1, listening)
       ELSE /\ pc' = [pc EXCEPT ![p] = "ServeForever"]
            /\ UNCHANGED <<listening, exitCode>>
    /\ UNCHANGED <<bindAttempts, stdout, closed, reqVars>>

\* Lines 29-30: try: httpd.serve_forever()
ServeForever(p) ==
    /\ pc[p] = "ServeForever"
    /\ pc' = [pc EXCEPT ![p] = "Serving"]
    /\ steps' = [steps EXCEPT ![p] = Append(@, "serve_forever")]
    /\ UNCHANGED <<listening, bindAttempts, stdout, browserResult, closed, exitCode, reqVars>>

\* SIGINT: Python raises KeyboardInterrupt in the main thread, wherever it is.
\* Inside serve_forever (line 30, in a request or between requests) the except
\* clause of line 31 catches it; on any other line it leaves main() and the
\* process dies of it (status 130).
Interrupt(p) ==
    /\ pc[p] \notin {"NotStarted", "Stopped"}
    /\ steps' = [steps EXCEPT ![p] = Append(@, "KeyboardInterrupt@" \o pc[p])]
    /\ IF pc[p] = "Serving"
       THEN /\ pc' = [pc EXCEPT ![p] = "ExceptPrint"]
            /\ rpc' = [rpc EXCEPT ![p] = "idle"]
            /\ req' = [req EXCEPT ![p] = NoReq]
            /\ hbuf' = [hbuf EXCEPT ![p] = <<>>]
            /\ resp' = [resp EXCEPT ![p] = NoResp]
            /\ UNCHANGED <<listening, exitCode>>
       ELSE /\ Terminate(p, 130, listening)
            /\ UNCHANGED reqVars
    /\ UNCHANGED <<bindAttempts, stdout, browserResult, closed>>

\* Line 32: print("\nServer stopped")
ExceptPrint(p) ==
    /\ pc[p] = "ExceptPrint"
    /\ stdout' = [stdout EXCEPT ![p] = Append(@, StoppedLine)]
    /\ pc' = [pc EXCEPT ![p] = "ExceptClose"]
    /\ steps' = [steps EXCEPT ![p] = Append(@, "print_stopped")]
    /\ UNCHANGED <<listening, bindAttempts, browserResult, closed, exitCode, reqVars>>

\* Line 33: httpd.server_close(); main() returns and the process exits with 0.
ServerClose(p) ==
    /\ pc[p] = "ExceptClose"
    /\ closed' = [closed EXCEPT ![p] = TRUE]
    /\ steps' = [steps EXCEPT ![p] = Append(@, "server_close")]
    /\ Terminate(p, 0, [listening EXCEPT ![PORT] = 0])
    /\ UNCHANGED <<bindAttempts, stdout, browserResult, reqVars>>

----------------------------------------------------------------------------

Init ==
    /\ pc = [p \in Procs |-> "NotStarted"]
    /\ listening = [port \in Ports |-> 0]
    /\ bindAttempts = [p \in Procs |-> <<>>]
    /\ stdout = [p \in Procs |-> <<>>]
    /\ browserResult = [p \in Procs |-> "none"]
    /\ closed = [p \in Procs |-> FALSE]
    /\ exitCode = [p \in Procs |-> -1]
    /\ steps = [p \in Procs |-> <<>>]
    /\ rpc = [p \in Procs |-> "idle"]
    /\ req = [p \in Procs |-> NoReq]
    /\ hbuf = [p \in Procs |-> <<>>]
    /\ resp = [p \in Procs |-> NoResp]

Next ==
    \E p \in Procs :
        \/ Bind(p)
        \/ PrintUrl(p)
        \/ PrintHint(p)
        \/ \E outcome \in BrowserOutcomes : OpenBrowser(p, outcome)
        \/ ServeForever(p)
        \/ Interrupt(p)
        \/ ExceptPrint(p)
        \/ ServerClose(p)
        \/ \E r \in Requests : Accept(p, r)
        \/ EndHeaders_SendHeader(p)
        \/ EndHeaders_Base(p)
        \/ WriteBody(p)
        \/ ShutdownRequest(p)

Spec == Init /\ [][Next]_vars

----------------------------------------------------------------------------
(* Vocabulary of the properties                                            *)

Range(seq) == {seq[i] : i \in 1..Len(seq)}

Count(seq, x) == Cardinality({i \in 1..Len(seq) : seq[i] = x})

IsPrefix(s, t) == Len(s) <= Len(t) /\ \A i \in 1..Len(s) : s[i] = t[i]

\* The steps of main() in the order of its lines.
MainOrder ==
    <<"bind", "print_url", "print_hint", "open_browser", "serve_forever",
      "print_stopped", "server_close">>

IsMainStep(e) == e \in Range(MainOrder)

MainSteps(p) == SelectSeq(steps[p], IsMainStep)

BindFailed(p) == steps[p] # <<>> /\ steps[p][1] = "bind_failed"

Bound(p) == "bind" \in Range(steps[p])

InterruptedWhileServing(p) == "KeyboardInterrupt@Serving" \in Range(steps[p])

Interrupted(p) == \E e \in Range(steps[p]) : e \notin Range(MainOrder) \cup {"bind_failed"}

\* Everything that belongs to process p.
ProcState(p) ==
    <<pc[p], bindAttempts[p], stdout[p], browserResult[p], closed[p], exitCode[p],
      steps[p], rpc[p], req[p], hbuf[p], resp[p]>>

----------------------------------------------------------------------------
(* C1 *)

\* C1 as stated: every response the server has sent, whatever the request and
\* the status, carries Access-Control-Allow-Origin: * exactly once.
C1_EveryResponseHasCorsOnce ==
    \A p \in Procs :
        resp[p].complete => Count(resp[p].headers, CorsHeader) = 1

\* C1 amended: every header block the server sends carries the header exactly
\* once, and every response to a request line with an HTTP/1.x version has a
\* header block; a response handled as HTTP/0.9 (no version, or a version that
\* is malformed or 2.0 and above) has no headers at all. The header is never
\* pending or sent twice.
C1_EveryHeaderBlockHasCorsOnce ==
    \A p \in Procs :
        /\ resp[p].flushed => Count(resp[p].headers, CorsHeader) = 1
        /\ resp[p].complete =>
              IF RequestVersion(req[p]) # "HTTP/0.9"
              THEN resp[p].flushed
              ELSE ~resp[p].flushed /\ resp[p].headers = <<>>
        /\ Count(resp[p].headers \o hbuf[p], CorsHeader) <= 1

\* An error response (404) with its header block has been sent.
C1_Witness ==
    \E p \in Procs :
        /\ resp[p].complete
        /\ resp[p].flushed
        /\ resp[p].status = 404
        /\ Count(resp[p].headers, CorsHeader) = 1

----------------------------------------------------------------------------
(* C9 *)

\* C9: within one response the CORS header is appended to the pending headers
\* before the inherited end_headers runs, so when that runs the header is the
\* last pending one and nothing has been flushed; the flushed block contains
\* it; and after the flush no header is pending and the block never changes.
C9_CorsBeforeFinalization ==
    /\ [](\A p \in Procs :
            /\ (rpc[p] = "base_end_headers" /\ RequestVersion(req[p]) # "HTTP/0.9") =>
                  /\ hbuf[p] # <<>>
                  /\ hbuf[p][Len(hbuf[p])] = CorsHeader
                  /\ ~resp[p].flushed
            /\ rpc[p] \in {"idle", "end_headers"} => ~resp[p].flushed
            /\ resp[p].flushed =>
                  /\ CorsHeader \in Range(resp[p].headers)
                  /\ hbuf[p] = <<>>)
    /\ [][\A p \in Procs :
            resp[p].flushed =>
                \/ resp'[p].headers = resp[p].headers /\ hbuf'[p] = <<>>
                \/ resp'[p] = NoResp]_vars

\* A header block has been flushed and the body is about to be written.
C9_Witness ==
    \E p \in Procs :
        /\ rpc[p] = "body"
        /\ resp[p].flushed
        /\ resp[p].headers[Len(resp[p].headers)] = CorsHeader

----------------------------------------------------------------------------
(* C8 *)

\* C8 as stated: for any GET, an existing file is answered 200 with the file's
\* bytes and a name that does not exist is answered 404.
C8_AnyGetFile200Missing404 ==
    \A p \in Procs :
        (resp[p].complete /\ req[p].method = "GET") =>
            /\ FS[req[p].path].kind = "file" =>
                  resp[p].status = 200 /\ resp[p].body = FS[req[p].path].content
            /\ FS[req[p].path].kind = "absent" => resp[p].status = 404

\* C8 amended: for a GET whose request line carries an HTTP/1.x version, a file
\* the server can read is answered 200 with the file's bytes unless the request
\* carries a satisfied If-Modified-Since, which is answered 304 without a body;
\* a file that cannot be opened and a name that does not exist are answered 404;
\* and the server is still serving when the response is complete.
C8_GetFile200Or304Missing404 ==
    \A p \in Procs :
        (resp[p].complete /\ req[p].method = "GET" /\ req[p].version = "HTTP/1.1") =>
            LET f == FS[req[p].path] IN
            /\ (f.kind = "file" /\ f.readable /\ ~req[p].ims) =>
                  resp[p].status = 200 /\ resp[p].body = f.content
            /\ (f.kind = "file" /\ f.readable /\ req[p].ims) =>
                  resp[p].status = 304 /\ resp[p].body = ""
            /\ (f.kind = "file" /\ ~f.readable) => resp[p].status = 404
            /\ f.kind = "absent" => resp[p].status = 404
            /\ pc[p] = "Serving"

\* A GET of /index.html has been answered 200 with the file's bytes.
C8_Witness ==
    \E p \in Procs :
        /\ resp[p].complete
        /\ req[p] = [method |-> "GET", version |-> "HTTP/1.1",
                     path |-> "/index.html", ims |-> FALSE]
        /\ resp[p].status = 200
        /\ resp[p].body = "<h1>hi</h1>"
        /\ pc[p] = "Serving"

----------------------------------------------------------------------------
(* C2 *)

\* C2: a process that was interrupted while serving and has ended printed the
\* shutdown notice, closed its listener, exited with status 0 and left the port
\* free for a new start.
C2_InterruptWhileServingExitsCleanly ==
    \A p \in Procs :
        (pc[p] = "Stopped" /\ InterruptedWhileServing(p)) =>
            /\ StoppedLine \in Range(stdout[p])
            /\ closed[p]
            /\ exitCode[p] = 0
            /\ listening[PORT] # p

----------------------------------------------------------------------------
(* C3 *)

\* C3: whatever webbrowser.open did (returned True, returned False, raised), a
\* process that was not interrupted goes on to serve with its listener bound and
\* has not ended with an error.
C3_BrowserOutcomeNeverStopsStartup ==
    \A p \in Procs :
        (browserResult[p] # "none" /\ ~Interrupted(p)) =>
            /\ pc[p] \in {"ServeForever", "Serving"}
            /\ listening[PORT] = p
            /\ exitCode[p] = -1

----------------------------------------------------------------------------
(* C5 *)

\* C5: a process that ended without ever listening failed to bind, and a process
\* that ended after listening was ended by an interrupt: no request and no
\* outcome of the browser launch ends it.
C5_StoppedOnlyByInterruptOrBindFailure ==
    \A p \in Procs :
        pc[p] = "Stopped" =>
            IF Bound(p) THEN Interrupted(p) ELSE BindFailed(p)

----------------------------------------------------------------------------
(* C6 *)

\* C6: every process that ended after a successful bind called server_close on
\* its listener.
C6_ListenerClosedOnEveryExit ==
    \A p \in Procs :
        (pc[p] = "Stopped" /\ Bound(p)) => closed[p]

----------------------------------------------------------------------------
(* C4 *)

\* C4: a start while port 8000 is held fails at the bind: the process ends at
\* once with a non-zero status, having tried port 8000 once and no other port,
\* never printing, opening a browser or serving, and holding no port; and the
\* step changes nothing of any other process nor who holds the ports.
C4_SecondStartFailsAtBind ==
    /\ [](\A q \in Procs :
            BindFailed(q) =>
                /\ pc[q] = "Stopped"
                /\ exitCode[q] \notin {0, -1}
                /\ steps[q] = <<"bind_failed">>
                /\ bindAttempts[q] = <<PORT>>
                /\ \A port \in Ports : listening[port] # q)
    /\ [][\A q \in Procs :
            (pc[q] = "NotStarted" /\ pc'[q] # "NotStarted" /\ listening[PORT] # 0) =>
                /\ BindFailed(q)'
                /\ listening' = listening
                /\ \A p \in Procs \ {q} : ProcState(p)' = ProcState(p)]_vars

\* One instance is serving and another start has failed at the bind.
C4_Witness ==
    \E p, q \in Procs :
        /\ pc[p] = "Serving"
        /\ listening[PORT] = p
        /\ BindFailed(q)
        /\ pc[q] = "Stopped"

----------------------------------------------------------------------------
(* C7 *)

\* C7: the steps a run has taken are always an initial part of: bind, print the
\* URL line, print the interrupt hint, open the browser, serve, print the
\* shutdown notice, close the listener (or the single step of a failed bind);
\* the output is the corresponding lines in that order; requests are handled
\* only once serving has begun; the listener is closed only after an interrupt
\* caught while serving; and the browser is opened at most once.
C7_StartupOrder ==
    \A p \in Procs :
        /\ \/ steps[p] = <<"bind_failed">>
           \/ IsPrefix(MainSteps(p), MainOrder)
        /\ IsPrefix(stdout[p], <<StartingLine, HintLine, StoppedLine>>)
        /\ req[p] # NoReq => "serve_forever" \in Range(steps[p])
        /\ pc[p] = "Serving" => MainSteps(p) = SubSeq(MainOrder, 1, 5)
        /\ closed[p] => InterruptedWhileServing(p)
        /\ Count(steps[p], "open_browser") <= 1

\* A run that went through every step, from the bind to the close.
C7_Witness ==
    \E p \in Procs :
        /\ MainSteps(p) = MainOrder
        /\ closed[p]
        /\ stdout[p] = <<StartingLine, HintLine, StoppedLine>>

----------------------------------------------------------------------------
(* C10 *)

\* C10: a run whose bind failed printed nothing and opened no browser; whatever
\* was printed or opened came after a successful bind; and at the step that
\* prints an announcement line or opens the browser, the process holds the
\* listener on port 8000.
C10_AnnounceAndBrowserOnlyAfterBind ==
    /\ [](\A p \in Procs :
            /\ BindFailed(p) => stdout[p] = <<>> /\ browserResult[p] = "none"
            /\ (stdout[p] # <<>> \/ browserResult[p] # "none") =>
                  steps[p][1] = "bind" /\ bindAttempts[p] = <<PORT>>)
    /\ [][\A p \in Procs :
            (browserResult'[p] # browserResult[p]
               \/ (stdout'[p] # stdout[p] /\ pc[p] \in {"PrintUrl", "PrintHint"})) =>
                listening[PORT] = p]_vars

\* The browser has been opened by the instance that holds port 8000, while
\* another run's bind has failed.
C10_Witness ==
    \E p, q \in Procs :
        /\ browserResult[p] \in {"True", "False"}
        /\ listening[PORT] = p
        /\ stdout[p] = <<StartingLine, HintLine>>
        /\ BindFailed(q)

====
